---- MODULE Spec2Model ----
(***************************************************************************)
(* State-normalisation layer of smb2-gym: SuperMarioBros2Env (smb2_env.py) *)
(* with its mixins PositionMixin, PlayerStateMixin and EnemiesMixin.       *)
(*                                                                         *)
(* The emulator is an external collaborator.  Its working memory is the    *)
(* variable ram; every emulator frame may leave any memory image of the    *)
(* input set of the specification in it.  reset() and step() are modelled  *)
(* as one action each, including every evaluation of the side-effecting    *)
(* property global_coordinate_system that they trigger.                    *)
(***************************************************************************)
EXTENDS Integers, Sequences, FiniteSets, TLC

VARIABLES
    cfg,                        \* constructor arguments and emulator capabilities
    ram,                        \* emulator working memory (the bytes the layer reads)
    previous_lives,             \* self._previous_lives            (None or int)
    previous_levels_finished,   \* self._previous_levels_finished  (absent or 4 counters)
    previous_sub_area,          \* self._previous_sub_area         (None or int)
    previous_x_global,          \* self._previous_x_global         (None or int)
    previous_y_global,          \* self._previous_y_global         (None or int)
    transition_frame_count,     \* self._transition_frame_count
    done,                       \* self._done
    episode_steps,              \* self._episode_steps
    info,                       \* the info dict last returned by reset()/step()
    result,                     \* what the last handler returned or raised
    hold,                       \* history: calls of the stabilizer since the last onset
    calls,                      \* history: the stabilizer calls made by the last handler
    telemetry,                  \* the enemy lists last read (EnemiesMixin properties)
    probe,                      \* the position values last read (PositionMixin properties)
    last_action                 \* the action argument of the last step() call

vars == << cfg, ram, previous_lives, previous_levels_finished, previous_sub_area,
           previous_x_global, previous_y_global, transition_frame_count, done,
           episode_steps, info, result, hold, calls, telemetry, probe,
           last_action >>

envVars == << previous_lives, previous_levels_finished, previous_sub_area,
              previous_x_global, previous_y_global, transition_frame_count, done,
              episode_steps, info, result, hold, calls, last_action >>

-----------------------------------------------------------------------------
(* Program constants *)

PAGE_SIZE == 256
SCREEN_HEIGHT == 240
GAME_INIT_FRAMES == 300
MAX_LIVES == 9
AREA_TRANSITION_FRAMES == 98
NUM_ENEMY_SLOTS == 5
ENEMY_INVISIBLE == 0
ENEMY_VISIBLE == 1
ENEMY_DEAD == 2
ENEMY_NOT_PRESENT == -1

(* Python's None / a missing attribute, and a present value *)
None == << >>
Some(v) == << v >>
Get(o) == o[1]

Min(a, b) == IF a < b THEN a ELSE b
Max(a, b) == IF a > b THEN a ELSE b

-----------------------------------------------------------------------------
(* Bounds of the model *)

\* step() is not taken once the episode has this many steps (stabilizer runs)
MaxSteps == 52
\* the same cap for the runs that cross the initialisation grace period
MaxLifeSteps == 302
\* the same cap for the runs with failing memory reads
MaxFaultSteps == 3
\* the max_episode_steps given to the constructor, when one is given
MaxEpisode == 4
\* player X pages read in the position runs
MaxXPage == 3
\* largest total-pages byte of the height readings (the sub-area has one page more)
MaxTotalPages == 2

-----------------------------------------------------------------------------
(* Raw memory access *)

\* SuperMarioBros2Env._read_ram_safe: the byte when the emulator object has a
\* read_ram attribute, the caller's default otherwise.
ReadRamSafe(c, m, field, default) ==
    IF c.has_read_ram THEN m[field] ELSE default

\* SuperMarioBros2Env._get_y_position: the byte clamped to 0..SCREEN_HEIGHT-1
GetYPosition(c, m, field) ==
    Max(0, Min(ReadRamSafe(c, m, field, 0), SCREEN_HEIGHT - 1))

-----------------------------------------------------------------------------
(* PositionMixin *)

\* mutant of x_position_global: the page is scaled by one less than PAGE_SIZE
XPositionGlobalShortPage(c, m) ==
    (ReadRamSafe(c, m, "x_page", 0) * (PAGE_SIZE - 1)) + ReadRamSafe(c, m, "x_pos", 0)

x_position_global(c, m) ==
    (ReadRamSafe(c, m, "x_page", 0) * PAGE_SIZE) + ReadRamSafe(c, m, "x_pos", 0)

total_pages_in_sub_area(c, m) == ReadRamSafe(c, m, "total_pages", 0) + 1

is_vertical_area(c, m) == ReadRamSafe(c, m, "scroll_direction", 0) = 0

\* mutant of _transform_y_coordinate: the inversion is off by one (the top row
\* of the level maps to max_y_in_level instead of max_y_in_level - 1)
TransformYCoordinateOffByOne(c, m, y_page_in, y_pos_raw) ==
    LET y_page == IF y_page_in = 255 THEN 0 ELSE y_page_in
        y_pos_global == y_page * SCREEN_HEIGHT + y_pos_raw
        max_y_in_level == IF is_vertical_area(c, m)
                          THEN total_pages_in_sub_area(c, m) * SCREEN_HEIGHT
                          ELSE SCREEN_HEIGHT
    IN  max_y_in_level - y_pos_global

TransformYCoordinate(c, m, y_page_in, y_pos_raw) ==
    LET y_page == IF y_page_in = 255 THEN 0 ELSE y_page_in
        y_pos_global == y_page * SCREEN_HEIGHT + y_pos_raw
        max_y_in_level == IF is_vertical_area(c, m)
                          THEN total_pages_in_sub_area(c, m) * SCREEN_HEIGHT
                          ELSE SCREEN_HEIGHT
    IN  max_y_in_level - y_pos_global - 1

y_position_global(c, m) ==
    TransformYCoordinate(c, m, ReadRamSafe(c, m, "y_page", 0), GetYPosition(c, m, "y_pos"))

area(c, m) == ReadRamSafe(c, m, "area", 0)

sub_area(c, m) == ReadRamSafe(c, m, "sub_area", 0)

GlobalCoordinate(a, s, x, y) ==
    [area |-> a, sub_area |-> s, global_x |-> x, global_y |-> y]

\* The raw, unstabilised coordinate tuple of a memory image
RawCoordinate(c, m) ==
    GlobalCoordinate(area(c, m), sub_area(c, m), x_position_global(c, m),
                     y_position_global(c, m))

\* position.py:154-156: previous values are recorded
PreviousRecorded(ps, px, py) == ps # None /\ px # None /\ py # None

\* mutant of TransitionOnset: any change of sub-area starts a hold, whether
\* the position changed or not
TransitionOnsetAnyPosition(ps, px, py, cnt, cs, cx, cy) ==
    /\ cnt = 0
    /\ cs # Get(ps)

\* position.py:159-162: the sub-area changed and the position did not
TransitionOnset(ps, px, py, cnt, cs, cx, cy) ==
    /\ cnt = 0
    /\ cs # Get(ps)
    /\ cx = Get(px)
    /\ cy = Get(py)

\* mutant of InHoldWindow: the hold window is one call longer
InHoldWindowInclusive(cnt) == cnt <= AREA_TRANSITION_FRAMES + 1

\* position.py:169: the incremented counter is still inside the hold window
InHoldWindow(cnt) == cnt <= AREA_TRANSITION_FRAMES

\* mutant of HoldExpired: the counter is reset one call late
HoldExpiredLate(cnt) == cnt = AREA_TRANSITION_FRAMES + 2

\* mutant of HoldExpired: the reset tests a counter value the branch never sees
HoldExpiredOffByOne(cnt) == cnt = AREA_TRANSITION_FRAMES

\* position.py:173: the incremented counter is the first one past the window
HoldExpired(cnt) == cnt = AREA_TRANSITION_FRAMES + 1

\* position.py:158-174: the branch taken when previous values are recorded
StabilizeRecorded(c, m, ps, px, py, cnt) ==
    LET cs == sub_area(c, m)
        cx == x_position_global(c, m)
        cy == y_position_global(c, m)
    IN  IF TransitionOnset(ps, px, py, cnt, cs, cx, cy)
        THEN [count |-> 1,
              gc |-> GlobalCoordinate(area(c, m), Get(ps), cx, cy)]
        ELSE IF cnt > 0
             THEN IF InHoldWindow(cnt + 1)
                  THEN [count |-> cnt + 1,
                        gc |-> GlobalCoordinate(area(c, m), Get(ps), Get(px), Get(py))]
                  ELSE [count |-> IF HoldExpired(cnt + 1) THEN 0 ELSE cnt + 1,
                        gc |-> GlobalCoordinate(area(c, m), cs, cx, cy)]
             ELSE [count |-> cnt,
                   gc |-> GlobalCoordinate(area(c, m), cs, cx, cy)]

\* mutant of global_coordinate_system: without recorded previous values the
\* origin is reported in place of the values read
GlobalCoordinateSystemOriginWhenUnrecorded(c, m, ps, px, py, cnt) ==
    IF PreviousRecorded(ps, px, py)
    THEN StabilizeRecorded(c, m, ps, px, py, cnt)
    ELSE [count |-> cnt, gc |-> GlobalCoordinate(area(c, m), 0, 0, 0)]

\* PositionMixin.global_coordinate_system, one evaluation of the property:
\* the tuple it returns and the value it leaves in _transition_frame_count.
global_coordinate_system(c, m, ps, px, py, cnt) ==
    IF PreviousRecorded(ps, px, py)
    THEN StabilizeRecorded(c, m, ps, px, py, cnt)
    ELSE [count |-> cnt,
          gc |-> GlobalCoordinate(area(c, m), sub_area(c, m), x_position_global(c, m),
                                  y_position_global(c, m))]

-----------------------------------------------------------------------------
(* PlayerStateMixin *)

CHARACTERS == << "mario", "peach", "toad", "luigi" >>

lives(c, m) ==
    LET v == ReadRamSafe(c, m, "lives", 2)
    IN  IF 0 <= v /\ v <= MAX_LIVES THEN v ELSE 2

levels_finished(c, m) ==
    [mario |-> ReadRamSafe(c, m, "lf_mario", 0),
     peach |-> ReadRamSafe(c, m, "lf_peach", 0),
     toad  |-> ReadRamSafe(c, m, "lf_toad", 0),
     luigi |-> ReadRamSafe(c, m, "lf_luigi", 0)]

\* mutant of CounterIncreased: an unchanged counter counts as a completion
CounterNotDecreased(current, previous) == current >= previous

\* player_state.py:179: one character's counter is above the retained one
CounterIncreased(current, previous) == current > previous

\* PlayerStateMixin.level_completed; plf is _previous_levels_finished, None
\* while the attribute does not exist yet.
level_completed(c, m, plf) ==
    IF plf = None
    THEN FALSE
    ELSE \E i \in 1..Len(CHARACTERS) :
            CounterIncreased(levels_finished(c, m)[CHARACTERS[i]], Get(plf)[CHARACTERS[i]])

-----------------------------------------------------------------------------
(* SuperMarioBros2Env *)

\* mutant of InGracePeriod: the grace period lasts one step longer
InGracePeriodInclusive(steps) == steps <= GAME_INIT_FRAMES

\* smb2_env.py:515: the episode is still inside the initialisation period
InGracePeriod(steps) == steps < GAME_INIT_FRAMES

is_game_over(c, m, steps) ==
    IF InGracePeriod(steps) THEN FALSE ELSE lives(c, m) = 0

DetectLifeLoss(c, m, pl, steps) ==
    IF ~c.reset_on_life_loss THEN FALSE
    ELSE IF pl = None THEN FALSE
    ELSE IF InGracePeriod(steps) THEN FALSE
    ELSE lives(c, m) < Get(pl)

\* smb2_env.py:330-332
Truncated(c, steps) ==
    c.max_episode_steps # None /\ steps >= Get(c.max_episode_steps)

\* SuperMarioBros2Env.info, the keys the claims are about.  gc is the value
\* the evaluation of global_coordinate_system inside the dict gave.
InfoDict(c, m, gc, plf) ==
    [life |-> lives(c, m),
     x_pos_global |-> x_position_global(c, m),
     y_pos_global |-> y_position_global(c, m),
     area |-> area(c, m),
     sub_area |-> sub_area(c, m),
     global_coordinates |-> gc,
     levels_finished |-> levels_finished(c, m),
     level_completed |-> level_completed(c, m, plf),
     life_lost |-> FALSE]

(* History of the stabilizer calls.  hold.n counts the calls since the last   *)
(* onset (the onset call is 1, 0 when there was none since the last reset;    *)
(* it stops counting at AREA_TRANSITION_FRAMES + 2), hold.onset is the tuple  *)
(* the onset call returned.                                                   *)
NoHold == [n |-> 0, onset |-> None]

HoldAfter(h, before, res) ==
    IF before = 0 /\ res.count = 1
    THEN [n |-> 1, onset |-> Some(res.gc)]
    ELSE IF h.n >= 1
         THEN [h EXCEPT !.n = Min(h.n + 1, AREA_TRANSITION_FRAMES + 2)]
         ELSE h

\* One call of global_coordinate_system: before and after are the counter
\* around it, prev the previous values (sub_area, x, y) it compared with
CallEntry(c, m, h, res, before, ps, px, py) ==
    [n |-> h.n, onset |-> h.onset, ret |-> res.gc, raw |-> RawCoordinate(c, m),
     after |-> res.count, before |-> before, prev |-> << ps, px, py >>]

Returned(kind, terminated, truncated) ==
    [kind |-> kind, terminated |-> terminated, truncated |-> truncated]

\* render() builds the info dict once more for the info panel, in human mode
\* only (smb2_env.py:352-367; a pending QUIT event of the window is not modelled)
RendersPanel(c) == c.render_mode = "human"

\* The part reset() and step() share (smb2_env.py:269-281 and 309-326, 338-339)
\* on memory image m: the info dict is built (first evaluation of
\* global_coordinate_system), the previous-frame values are stored (second
\* evaluation) and, in human mode, render() builds the info dict again (third
\* evaluation).  cnt0 and h0 are the counter and the call history before.
Observe(m, cnt0, h0, life_lost) ==
    \E r1 \in { global_coordinate_system(cfg, m, previous_sub_area, previous_x_global,
                                         previous_y_global, cnt0) } :
    \E h1 \in { HoldAfter(h0, cnt0, r1) } :
    \E r2 \in { global_coordinate_system(cfg, m, previous_sub_area, previous_x_global,
                                         previous_y_global, r1.count) } :
    \E h2 \in { HoldAfter(h1, r1.count, r2) } :
    \E r3 \in { IF RendersPanel(cfg)
                THEN global_coordinate_system(cfg, m, Some(r2.gc.sub_area),
                                              Some(r2.gc.global_x), Some(r2.gc.global_y),
                                              r2.count)
                ELSE r2 } :
    \E h3 \in { IF RendersPanel(cfg) THEN HoldAfter(h2, r2.count, r3) ELSE h2 } :
        /\ info' = [InfoDict(cfg, m, r1.gc, previous_levels_finished)
                        EXCEPT !.life_lost = life_lost]
        /\ previous_lives' = Some(lives(cfg, m))
        /\ previous_levels_finished' = Some(levels_finished(cfg, m))
        /\ previous_sub_area' = Some(r2.gc.sub_area)
        /\ previous_x_global' = Some(r2.gc.global_x)
        /\ previous_y_global' = Some(r2.gc.global_y)
        /\ transition_frame_count' = r3.count
        /\ hold' = h3
        /\ calls' = << CallEntry(cfg, m, h1, r1, cnt0, previous_sub_area,
                                 previous_x_global, previous_y_global),
                       CallEntry(cfg, m, h2, r2, r1.count, previous_sub_area,
                                 previous_x_global, previous_y_global) >>
                    \o (IF RendersPanel(cfg)
                        THEN << CallEntry(cfg, m, h3, r3, r2.count, Some(r2.gc.sub_area),
                                          Some(r2.gc.global_x), Some(r2.gc.global_y)) >>
                        ELSE << >>)

\* SuperMarioBros2Env.reset.  m is the memory image after the emulator reset,
\* the save-state load and the one frame stepped; fault: read_ram raises.
Reset(m, fault) ==
    /\ ram' = m
    /\ last_action' = None
    /\ done' = FALSE
    /\ episode_steps' = 0
    /\ UNCHANGED << cfg, telemetry, probe >>
    /\ IF fault
       THEN /\ transition_frame_count' = 0
            /\ hold' = NoHold
            /\ calls' = << >>
            /\ result' = Returned("reset raised", FALSE, FALSE)
            /\ UNCHANGED << info, previous_lives, previous_levels_finished,
                            previous_sub_area, previous_x_global, previous_y_global >>
       ELSE /\ Observe(m, 0, NoHold, FALSE)
            /\ result' = Returned("reset", FALSE, FALSE)

\* lengths of the action lists of actions.py
SIMPLE_ACTIONS_LEN == 3
COMPLEX_ACTIONS_LEN == 5

\* SuperMarioBros2Env._validate_and_convert_action: "buttons" when the call
\* returns a button array, the exception it raises otherwise.  For the list
\* types the action indexes a Python list: an index in -len..-1 counts from
\* the end, one below -len raises IndexError.
ValidateAndConvertAction(c, action) ==
    IF c.action_type = "all"
    THEN IF 0 <= action /\ action <= 255 THEN "buttons" ELSE "ValueError"
    ELSE LET len == IF c.action_type = "complex" THEN COMPLEX_ACTIONS_LEN
                    ELSE SIMPLE_ACTIONS_LEN
         IN  IF action >= len THEN "ValueError"
             ELSE IF action < -len THEN "IndexError"
             ELSE "buttons"

\* mutant of EpisodeDone: a truncated episode is not marked done
EpisodeDoneTerminatedOnly(terminated, truncated) == terminated

\* smb2_env.py:334
EpisodeDone(terminated, truncated) == terminated \/ truncated

\* step() raises before the emulator is stepped: nothing but the outcome changes
StepRaises(kind) ==
    /\ result' = Returned(kind, FALSE, FALSE)
    /\ calls' = << >>
    /\ UNCHANGED << ram, episode_steps, done, info, transition_frame_count,
                    hold, previous_lives, previous_levels_finished,
                    previous_sub_area, previous_x_global, previous_y_global >>

\* SuperMarioBros2Env.step from line 301 on, the episode not being done.
StepNotDone(action, m, fault, cap) ==
    IF ValidateAndConvertAction(cfg, action) # "buttons"
    THEN StepRaises(ValidateAndConvertAction(cfg, action))
    ELSE /\ episode_steps < cap
         /\ ram' = m
         /\ episode_steps' = episode_steps + 1
         /\ IF fault
            THEN /\ result' = Returned("step raised", FALSE, FALSE)
                 /\ calls' = << >>
                 /\ UNCHANGED << done, info, transition_frame_count, hold,
                                 previous_lives, previous_levels_finished,
                                 previous_sub_area, previous_x_global,
                                 previous_y_global >>
            ELSE \E life_lost \in { DetectLifeLoss(cfg, m, previous_lives,
                                                   episode_steps + 1) } :
                 \E terminated \in { is_game_over(cfg, m, episode_steps + 1)
                                     \/ life_lost } :
                 \E truncated \in { Truncated(cfg, episode_steps + 1) } :
                     /\ Observe(m, transition_frame_count, hold, life_lost)
                     /\ done' = EpisodeDone(terminated, truncated)
                     /\ result' = Returned("step", terminated, truncated)

\* mutant of step: the _done check of line 298 is missing
StepWithoutDoneCheck(action, m, fault, cap) ==
    /\ UNCHANGED << cfg, telemetry, probe >>
    /\ last_action' = Some(action)
    /\ StepNotDone(action, m, fault, cap)

\* SuperMarioBros2Env.step.  m is the memory image after the emulator frame;
\* cap bounds the episode length of the run.
Step(action, m, fault, cap) ==
    /\ UNCHANGED << cfg, telemetry, probe >>
    /\ last_action' = Some(action)
    /\ IF done
       THEN StepRaises("RuntimeError")
       ELSE StepNotDone(action, m, fault, cap)

-----------------------------------------------------------------------------
(* EnemiesMixin: each property is a list of NUM_ENEMY_SLOTS values in slot order *)

enemy_visibility_states(c, m) ==
    [i \in 1..NUM_ENEMY_SLOTS |-> ReadRamSafe(c, m.e_vis, i, 0)]

\* mutant of SlotAbsent: dead slots are treated as present
SlotAbsentInvisibleOnly(v) == v = ENEMY_INVISIBLE

\* enemies.py:50 (and 67, 86, 105, 122, 140, 161, 184, 211, 231)
SlotAbsent(v) == v \in {ENEMY_INVISIBLE, ENEMY_DEAD}

enemy_x_positions(c, m) ==
    [i \in 1..NUM_ENEMY_SLOTS |->
        IF SlotAbsent(enemy_visibility_states(c, m)[i]) THEN ENEMY_NOT_PRESENT
        ELSE ReadRamSafe(c, m.e_x, i, 0)]

enemy_y_positions(c, m) ==
    [i \in 1..NUM_ENEMY_SLOTS |->
        IF SlotAbsent(enemy_visibility_states(c, m)[i]) THEN ENEMY_NOT_PRESENT
        ELSE SCREEN_HEIGHT - 1 - GetYPosition(c, m.e_y, i)]

\* mutant of SignedByte: the byte 128 is read as positive
SignedByteFrom129(b) == IF b <= 128 THEN b ELSE b - 256

SignedByte(b) == IF b < 128 THEN b ELSE b - 256

\* PlayerStateMixin.player_speed
player_speed(c, m) == SignedByte(ReadRamSafe(c, m, "player_speed", 0))

enemy_speeds(c, m) ==
    [i \in 1..NUM_ENEMY_SLOTS |->
        IF SlotAbsent(enemy_visibility_states(c, m)[i]) THEN ENEMY_NOT_PRESENT
        ELSE SignedByte(ReadRamSafe(c, m.e_speed, i, 0))]

enemy_x_pages(c, m) ==
    [i \in 1..NUM_ENEMY_SLOTS |->
        IF SlotAbsent(enemy_visibility_states(c, m)[i]) THEN ENEMY_NOT_PRESENT
        ELSE ReadRamSafe(c, m.e_x_page, i, 0)]

enemy_y_pages(c, m) ==
    [i \in 1..NUM_ENEMY_SLOTS |->
        IF SlotAbsent(enemy_visibility_states(c, m)[i]) THEN ENEMY_NOT_PRESENT
        ELSE ReadRamSafe(c, m.e_y_page, i, 0)]

enemy_x_positions_global(c, m) ==
    [i \in 1..NUM_ENEMY_SLOTS |->
        IF SlotAbsent(enemy_visibility_states(c, m)[i]) THEN ENEMY_NOT_PRESENT
        ELSE (ReadRamSafe(c, m.e_x_page, i, 0) * PAGE_SIZE) + ReadRamSafe(c, m.e_x, i, 0)]

enemy_y_positions_global(c, m) ==
    [i \in 1..NUM_ENEMY_SLOTS |->
        IF SlotAbsent(enemy_visibility_states(c, m)[i]) THEN ENEMY_NOT_PRESENT
        ELSE TransformYCoordinate(c, m, ReadRamSafe(c, m.e_y_page, i, 0),
                                  GetYPosition(c, m.e_y, i))]

enemy_x_positions_relative(c, m) ==
    [i \in 1..NUM_ENEMY_SLOTS |->
        IF SlotAbsent(enemy_visibility_states(c, m)[i]) THEN ENEMY_NOT_PRESENT
        ELSE IF enemy_x_positions_global(c, m)[i] # ENEMY_NOT_PRESENT
             THEN x_position_global(c, m) - enemy_x_positions_global(c, m)[i]
             ELSE ENEMY_NOT_PRESENT]

enemy_y_positions_relative(c, m) ==
    [i \in 1..NUM_ENEMY_SLOTS |->
        IF SlotAbsent(enemy_visibility_states(c, m)[i]) THEN ENEMY_NOT_PRESENT
        ELSE IF enemy_y_positions_global(c, m)[i] # ENEMY_NOT_PRESENT
             THEN y_position_global(c, m) - enemy_y_positions_global(c, m)[i]
             ELSE ENEMY_NOT_PRESENT]

enemy_hp(c, m) ==
    [i \in 1..NUM_ENEMY_SLOTS |->
        IF SlotAbsent(enemy_visibility_states(c, m)[i]) THEN ENEMY_NOT_PRESENT
        ELSE ReadRamSafe(c, m.e_hp, i, 0)]

\* The enemy keys of the info dict (smb2_env.py:474-484)
EnemyInfo(c, m) ==
    [enemy_x_positions |-> enemy_x_positions(c, m),
     enemy_y_positions |-> enemy_y_positions(c, m),
     enemy_speeds |-> enemy_speeds(c, m),
     enemy_visibility_states |-> enemy_visibility_states(c, m),
     enemy_x_positions_global |-> enemy_x_positions_global(c, m),
     enemy_y_positions_global |-> enemy_y_positions_global(c, m),
     enemy_x_pages |-> enemy_x_pages(c, m),
     enemy_y_pages |-> enemy_y_pages(c, m),
     enemy_x_positions_relative |-> enemy_x_positions_relative(c, m),
     enemy_y_positions_relative |-> enemy_y_positions_relative(c, m),
     enemy_hp |-> enemy_hp(c, m)]

\* The position keys of the info dict (smb2_env.py:428-429)
PositionInfo(c, m) ==
    [x_pos_global |-> x_position_global(c, m),
     y_pos_global |-> y_position_global(c, m)]

-----------------------------------------------------------------------------
(* CollisionMapMixin *)

TileType ==
    [EMPTY |-> 0, SOLID |-> 1, PLATFORM |-> 2, VINE |-> 3, DOOR |-> 4, JAR |-> 5,
     SPIKES |-> 6, QUICKSAND |-> 7, CONVEYOR_LEFT |-> 8, CONVEYOR_RIGHT |-> 9,
     LADDER |-> 10, CHAIN |-> 11, CHERRY |-> 12, VEGETABLE |-> 13, POTION |-> 14,
     MUSHROOM |-> 15, HEART |-> 16, STAR |-> 17, ENEMY |-> 18, BOSS |-> 19,
     PROJECTILE |-> 20, WATER |-> 21, ICE |-> 22, CLOUD |-> 23, CARPET |-> 24,
     HAWK_MOUTH |-> 25, CRYSTAL |-> 26, MASK |-> 27, POW_BLOCK |-> 28, BOMB |-> 29,
     KEY |-> 30]

\* The values of the enumeration
TileTypeValues == { TileType[n] : n \in DOMAIN TileType }

TILE_ID_MAPPING ==
    (0 :> TileType.EMPTY)
    @@ (202 :> TileType.SOLID) @@ (204 :> TileType.SOLID) @@ (206 :> TileType.SOLID)
    @@ (79 :> TileType.DOOR) @@ (81 :> TileType.DOOR)
    @@ (194 :> TileType.VINE)
    @@ (200 :> TileType.SOLID) @@ (201 :> TileType.SOLID) @@ (203 :> TileType.SOLID)
    @@ (205 :> TileType.SOLID) @@ (207 :> TileType.SOLID) @@ (208 :> TileType.SOLID)
    @@ (209 :> TileType.SOLID) @@ (210 :> TileType.SOLID)
    @@ (16 :> TileType.PLATFORM) @@ (17 :> TileType.PLATFORM) @@ (18 :> TileType.PLATFORM)
    @@ (128 :> TileType.LADDER) @@ (129 :> TileType.LADDER)

COLLISION_MAP_SIZE == 16
MAX_SRAM_SIZE == 2400
BYTES_PER_PAGE == 256
TILE_PIXELS == 16
SCREEN_TILES_WIDTH == 16
SCREEN_TILES_HEIGHT == 15

\* _read_oam_sprite_safe: the sprite entry (y, tile_id, attributes, x), None
\* when the emulator's read raises
ReadOamSpriteSafe(m, sprite_index) ==
    IF m.oam_fails THEN None ELSE Some(m.oam[sprite_index])

\* _read_player_sprites: the entries of OAM indices 7..10 that are on screen
ReadPlayerSprites(m) ==
    { Get(ReadOamSpriteSafe(m, i)) :
        i \in { j \in 7..10 :
                  /\ ReadOamSpriteSafe(m, j) # None
                  /\ Get(ReadOamSpriteSafe(m, j))[1] < 239
                  /\ Get(ReadOamSpriteSafe(m, j))[2] # 255 } }

SetMin(S) == CHOOSE v \in S : \A w \in S : v <= w

\* get_player_sprite_position: << min x, min y >> of the player sprites
get_player_sprite_position(m) ==
    IF ReadPlayerSprites(m) = {} THEN None
    ELSE Some(<< SetMin({ sp[4] : sp \in ReadPlayerSprites(m) }),
                 SetMin({ sp[1] : sp \in ReadPlayerSprites(m) }) >>)

\* _get_viewport_offset: << viewport_x, viewport_y >> in tiles
GetViewportOffset(c, m) ==
    LET player_world_x_pixels ==
            (ReadRamSafe(c, m, "x_page", 0) * 256) + ReadRamSafe(c, m, "x_pos", 0)
        player_world_y_pixels ==
            (ReadRamSafe(c, m, "y_page", 0) * 256) + ReadRamSafe(c, m, "y_pos", 0)
        sprite_pos == get_player_sprite_position(m)
        player_screen == IF sprite_pos = None THEN << 128, 120 >> ELSE Get(sprite_pos)
    IN  << Max(0, (player_world_x_pixels - player_screen[1]) \div TILE_PIXELS),
           Max(0, (player_world_y_pixels - player_screen[2]) \div TILE_PIXELS) >>

\* mutant of SramAddress: the address is not wrapped to the SRAM size
SramAddressUnwrapped(viewport, x, y) ==
    ((viewport[1] + x) \div 16) * BYTES_PER_PAGE
        + ((viewport[2] + y) % 16) * 16 + ((viewport[1] + x) % 16)

\* collision_map, lines 287-308: the SRAM address of grid cell (x, y)
SramAddress(viewport, x, y) ==
    LET world_x == viewport[1] + x
        world_y == viewport[2] + y
        page_number == world_x \div 16
        tile_x_in_page == world_x % 16
        tile_y_in_page == world_y % 16
        tile_index_in_page == tile_y_in_page * 16 + tile_x_in_page
    IN  (page_number * BYTES_PER_PAGE + tile_index_in_page) % MAX_SRAM_SIZE

\* collision_map, lines 311-314: the byte read_sram gives, 0 when it raises
ReadSram(m, address) ==
    IF m.sram_fails THEN 0 ELSE (m.sram.base + m.sram.step * address) % 256

\* mutant of ClassifyTile: an identifier missing from the table is stored as it is
ClassifyTileUnmappedKept(tile_id) ==
    IF tile_id \in DOMAIN TILE_ID_MAPPING THEN TILE_ID_MAPPING[tile_id] ELSE tile_id

\* collision_map, lines 317-329: the TileType stored for a tile identifier
ClassifyTile(tile_id) ==
    IF tile_id \in DOMAIN TILE_ID_MAPPING
    THEN TILE_ID_MAPPING[tile_id]
    ELSE IF tile_id = 0 THEN TileType.EMPTY
    ELSE IF tile_id = 194 THEN TileType.VINE
    ELSE TileType.EMPTY

Cells == 0..(COLLISION_MAP_SIZE - 1)

\* The addresses collision_map passes to read_sram, by row y and column x
SramAddressesRead(c, m) ==
    LET viewport == GetViewportOffset(c, m)
    IN  [y \in Cells |-> [x \in Cells |-> SramAddress(viewport, x, y)]]

\* The tile identifiers collision_map reads, by row y and column x
TileIdsRead(c, m) ==
    LET viewport == GetViewportOffset(c, m)
    IN  [y \in Cells |-> [x \in Cells |-> ReadSram(m, SramAddress(viewport, x, y))]]

\* CollisionMapMixin.collision_map: the grid, by row y and column x
collision_map(c, m) ==
    LET ids == TileIdsRead(c, m)
    IN  [y \in Cells |-> [x \in Cells |-> ClassifyTile(ids[y][x])]]

\* mutant of get_tile_at: only the upper bounds are tested, and a negative
\* cell index counts from the end of the array
GetTileAtUpperBoundOnly(c, m, x, y) ==
    IF x \div TILE_PIXELS < SCREEN_TILES_WIDTH /\ y \div TILE_PIXELS < SCREEN_TILES_HEIGHT
    THEN collision_map(c, m)[(y \div TILE_PIXELS) % COLLISION_MAP_SIZE]
                            [(x \div TILE_PIXELS) % COLLISION_MAP_SIZE]
    ELSE TileType.EMPTY

\* CollisionMapMixin.get_tile_at
get_tile_at(c, m, x, y) ==
    LET tile_x == x \div TILE_PIXELS
        tile_y == y \div TILE_PIXELS
    IN  IF 0 <= tile_x /\ tile_x < SCREEN_TILES_WIDTH
           /\ 0 <= tile_y /\ tile_y < SCREEN_TILES_HEIGHT
        THEN collision_map(c, m)[tile_y][tile_x]
        ELSE TileType.EMPTY

\* mutant of IsSolidTile: every tile that is not empty counts as solid
IsSolidTileNotEmpty(tile_type) == tile_type # TileType.EMPTY

\* is_solid, line 418
IsSolidTile(tile_type) == tile_type = TileType.SOLID

\* is_climbable, line 431
IsClimbableTile(tile_type) ==
    tile_type \in { TileType.LADDER, TileType.VINE, TileType.CHAIN }

is_solid(c, m, x, y) == IsSolidTile(get_tile_at(c, m, x, y))

is_climbable(c, m, x, y) == IsClimbableTile(get_tile_at(c, m, x, y))

\* mutant of OverlayEligible: every slot that is neither invisible nor dead
\* is overlaid
OverlayEligibleNotAbsent(c, m, i) ==
    ~ SlotAbsent(ReadRamSafe(c, m.e_vis, i, 0))

\* _add_enemies_to_map, lines 343-346: slot i passes the visibility test
OverlayEligible(c, m, i) ==
    ReadRamSafe(c, m.e_vis, i, 0) = ENEMY_VISIBLE

\* _add_enemies_to_map, lines 343-361: the cell << tile_y, tile_x >> slot i
\* marks, None when the slot is skipped
OverlayCell(c, m, i) ==
    LET enemy_x == ReadRamSafe(c, m.e_x, i, ENEMY_NOT_PRESENT)
        enemy_y == ReadRamSafe(c, m.e_y, i, ENEMY_NOT_PRESENT)
        tile_x == enemy_x \div 16
        tile_y == enemy_y \div 16
    IN  IF ~ OverlayEligible(c, m, i) THEN None
        ELSE IF enemy_x = ENEMY_NOT_PRESENT \/ enemy_y = ENEMY_NOT_PRESENT THEN None
        ELSE IF /\ 0 <= tile_x /\ tile_x < SCREEN_TILES_WIDTH
                /\ 0 <= tile_y /\ tile_y < SCREEN_TILES_HEIGHT
             THEN Some(<< tile_y, tile_x >>)
             ELSE None

\* the loop of _add_enemies_to_map from slot i on, writing into the map it
\* was given
RECURSIVE AddEnemiesFrom(_, _, _, _)
AddEnemiesFrom(c, m, map, i) ==
    IF i > NUM_ENEMY_SLOTS THEN map
    ELSE LET cell == OverlayCell(c, m, i)
         IN  AddEnemiesFrom(c, m,
                 IF cell = None THEN map
                 ELSE [map EXCEPT ![Get(cell)[1]][Get(cell)[2]] = TileType.ENEMY],
                 i + 1)

\* CollisionMapMixin._add_enemies_to_map
AddEnemiesToMap(c, m, map) == AddEnemiesFrom(c, m, map, 1)

-----------------------------------------------------------------------------
(* Memory images and constructor arguments the runs draw from *)

Slots == 1..NUM_ENEMY_SLOTS

BaseRam ==
    [x_page |-> 0, x_pos |-> 10, y_page |-> 0, y_pos |-> 5,
     area |-> 0, sub_area |-> 0, scroll_direction |-> 1, total_pages |-> 0,
     lives |-> 2, lf_mario |-> 0, lf_peach |-> 0, lf_toad |-> 0, lf_luigi |-> 0,
     e_vis |-> [i \in Slots |-> ENEMY_INVISIBLE],
     e_x |-> [i \in Slots |-> 0], e_y |-> [i \in Slots |-> 0],
     e_x_page |-> [i \in Slots |-> 0], e_y_page |-> [i \in Slots |-> 0],
     e_speed |-> [i \in Slots |-> 0], e_hp |-> [i \in Slots |-> 0],
     player_speed |-> 0,
     sram |-> [base |-> 0, step |-> 0], sram_fails |-> FALSE,
     oam |-> [i \in 7..10 |-> << 255, 255, 0, 0 >>], oam_fails |-> FALSE]

BaseCfg ==
    [render_mode |-> "none", reset_on_life_loss |-> FALSE,
     max_episode_steps |-> None, has_read_ram |-> TRUE, action_type |-> "simple"]

\* Stabilizer runs: area, sub-area and position vary from frame to frame
StabRam ==
    { [BaseRam EXCEPT !.area = i[1], !.sub_area = i[2], !.x_pos = i[3]] :
        i \in { <<0, 0, 10>>, <<0, 1, 10>>, <<0, 1, 20>>, <<1, 1, 10>>, <<0, 0, 20>> } }

StabCfg == { [BaseCfg EXCEPT !.render_mode = r] : r \in {"none", "human"} }

\* The state _init_state_tracking leaves (smb2_env.py:173-181); no info has
\* been returned, and _previous_levels_finished does not exist yet.
InitTracking ==
    /\ done = FALSE
    /\ episode_steps = 0
    /\ previous_lives = None
    /\ previous_levels_finished = None
    /\ previous_sub_area = None
    /\ previous_x_global = None
    /\ previous_y_global = None
    /\ transition_frame_count = 0
    /\ info = None
    /\ result = Returned("constructed", FALSE, FALSE)
    /\ hold = NoHold
    /\ calls = << >>
    /\ telemetry = None
    /\ probe = None
    /\ last_action = None

Init ==
    /\ cfg \in StabCfg
    /\ ram \in StabRam
    /\ InitTracking

EnvReset == \E m \in StabRam : Reset(m, FALSE)

EnvStep == \E m \in StabRam : Step(0, m, FALSE, MaxSteps)

Next == EnvReset \/ EnvStep

Spec == Init /\ [][Next]_vars

-----------------------------------------------------------------------------
(* Runs across the initialisation grace period: lives and completion       *)
(* counters vary, with and without life-loss detection and truncation.     *)

LifeRam ==
    { [BaseRam EXCEPT !.lives = i[1], !.lf_mario = i[2], !.lf_peach = i[3],
                      !.lf_toad = i[4], !.lf_luigi = i[5]] :
        i \in { <<2, 0, 0, 0, 0>>, <<1, 0, 0, 0, 0>>, <<0, 0, 0, 0, 0>>,
                <<200, 0, 0, 0, 0>>, <<2, 1, 0, 0, 0>>, <<2, 0, 1, 0, 0>>,
                <<2, 0, 0, 1, 0>>, <<1, 0, 0, 0, 1>> } }

LifeCfg ==
    { [BaseCfg EXCEPT !.reset_on_life_loss = r, !.max_episode_steps = t] :
        r \in BOOLEAN, t \in {None, Some(MaxEpisode)} }

InitLife ==
    /\ cfg \in LifeCfg
    /\ ram \in LifeRam
    /\ InitTracking

LifeReset == \E m \in LifeRam : Reset(m, FALSE)

LifeStep == \E m \in LifeRam : Step(0, m, FALSE, MaxLifeSteps)

NextLife == LifeReset \/ LifeStep

SpecLife == InitLife /\ [][NextLife]_vars

-----------------------------------------------------------------------------
(* Runs with an emulator whose read_ram is missing or raises *)

FaultCfg ==
    { [BaseCfg EXCEPT !.has_read_ram = h, !.render_mode = r] :
        h \in BOOLEAN, r \in {"none", "human"} }

InitFault ==
    /\ cfg \in FaultCfg
    /\ ram \in StabRam
    /\ InitTracking

FaultReset == \E m \in StabRam, fault \in BOOLEAN :
                 Reset(m, fault /\ cfg.has_read_ram)

FaultStep == \E m \in StabRam, fault \in BOOLEAN :
                 Step(0, m, fault /\ cfg.has_read_ram, MaxFaultSteps)

NextFault == FaultReset \/ FaultStep

SpecFail == InitFault /\ [][NextFault]_vars

-----------------------------------------------------------------------------
(* Runs with valid and invalid action arguments, for the three action types *)

ActionCfg ==
    { [BaseCfg EXCEPT !.action_type = t, !.max_episode_steps = Some(MaxEpisode)] :
        t \in {"all", "simple", "complex"} }

\* action arguments: below, inside and above the index ranges of the types
ActionInputs == {-300, -1, 0, 2, 3, 5, 255, 256}

InitAction ==
    /\ cfg \in ActionCfg
    /\ ram \in StabRam
    /\ InitTracking

ActionReset == \E m \in StabRam : Reset(m, FALSE)

ActionStep == \E a \in ActionInputs, m \in StabRam : Step(a, m, FALSE, MaxEpisode)

NextAction == ActionReset \/ ActionStep

SpecAction == InitAction /\ [][NextAction]_vars

-----------------------------------------------------------------------------
(* Reading the enemy telemetry of one memory image *)

VisibilityStates == {ENEMY_INVISIBLE, ENEMY_VISIBLE, ENEMY_DEAD}

\* raw bytes of the slot table: position, page, speed and health of slot i are
\* the profile's bytes moved by the slot index
SlotBytes ==
    { [x |-> 0, y |-> 0, x_page |-> 0, y_page |-> 0, speed |-> 0, hp |-> 0],
      [x |-> 200, y |-> 100, x_page |-> 1, y_page |-> 0, speed |-> 250, hp |-> 3],
      [x |-> 250, y |-> 236, x_page |-> 250, y_page |-> 250, speed |-> 125, hp |-> 250],
      [x |-> 6, y |-> 100, x_page |-> 251, y_page |-> 251, speed |-> 20, hp |-> 1] }

TelemetryRam ==
    { [BaseRam EXCEPT !.e_vis = v,
                      !.e_x = [i \in Slots |-> (b.x + i) % PAGE_SIZE],
                      !.e_y = [i \in Slots |-> (b.y + i) % PAGE_SIZE],
                      !.e_x_page = [i \in Slots |-> (b.x_page + i) % PAGE_SIZE],
                      !.e_y_page = [i \in Slots |-> (b.y_page + i) % PAGE_SIZE],
                      !.e_speed = [i \in Slots |-> (b.speed + i) % PAGE_SIZE],
                      !.e_hp = [i \in Slots |-> (b.hp + i) % PAGE_SIZE]] :
        v \in [Slots -> VisibilityStates], b \in SlotBytes }

InitTelemetry ==
    /\ cfg = BaseCfg
    /\ ram \in TelemetryRam
    /\ InitTracking

ReadTelemetry ==
    /\ telemetry = None
    /\ telemetry' = Some(EnemyInfo(cfg, ram))
    /\ UNCHANGED << cfg, ram, probe >>
    /\ UNCHANGED envVars

NextTelemetry == ReadTelemetry

SpecTelemetry == InitTelemetry /\ [][NextTelemetry]_vars

-----------------------------------------------------------------------------
(* Reading the player position while the emulator moves the player *)

PositionRam ==
    { [BaseRam EXCEPT !.x_page = p, !.x_pos = o] :
        p \in 0..MaxXPage, o \in 0..(PAGE_SIZE - 1) }

\* one emulator frame: the player stays, or moves by one pixel or one page
PositionMoves(m) ==
    { n \in PositionRam :
        \/ n = m
        \/ n.x_page = m.x_page /\ (n.x_pos = m.x_pos + 1 \/ n.x_pos = m.x_pos - 1)
        \/ n.x_pos = m.x_pos /\ (n.x_page = m.x_page + 1 \/ n.x_page = m.x_page - 1) }

InitPosition ==
    /\ cfg = BaseCfg
    /\ ram \in PositionRam
    /\ InitTracking

ReadPosition ==
    /\ \E m \in (IF probe = None THEN {ram} ELSE PositionMoves(ram)) :
          /\ ram' = m
          /\ probe' = Some(PositionInfo(cfg, m))
    /\ UNCHANGED << cfg, telemetry >>
    /\ UNCHANGED envVars

NextPosition == ReadPosition

SpecPosition == InitPosition /\ [][NextPosition]_vars

-----------------------------------------------------------------------------
(* Reading the heights of the player and of enemy slot 1 while the player  *)
(* moves vertically, in side-scrolling and vertically scrolling sub-areas  *)

\* The height keys of the info dict (smb2_env.py:429 and 479)
HeightInfo(c, m) ==
    [y_pos_global |-> y_position_global(c, m),
     enemy_y_positions_global |-> enemy_y_positions_global(c, m)]

YPages == {0, 1, 2, 255}

YOffsets == {0, 1, 5, 238, 239, 240, 255}

\* page and offset bytes of enemy slot 1
EnemyHeights == { <<0, 100>>, <<1, 30>>, <<255, 250>> }

HeightRam ==
    { [BaseRam EXCEPT !.y_page = p, !.y_pos = o, !.scroll_direction = d,
                      !.total_pages = t,
                      !.e_vis = [i \in Slots |-> IF i = 1 THEN ENEMY_VISIBLE
                                                 ELSE ENEMY_INVISIBLE],
                      !.e_y_page = [i \in Slots |-> IF i = 1 THEN e[1] ELSE 0],
                      !.e_y = [i \in Slots |-> IF i = 1 THEN e[2] ELSE 0]] :
        p \in YPages, o \in YOffsets, d \in {0, 1}, t \in 0..MaxTotalPages,
        e \in EnemyHeights }

\* one emulator frame: the player's Y page and offset change, the sub-area's
\* layout and the enemy stay
HeightMoves(m) ==
    { n \in HeightRam :
        /\ n.scroll_direction = m.scroll_direction
        /\ n.total_pages = m.total_pages
        /\ n.e_y_page = m.e_y_page
        /\ n.e_y = m.e_y }

InitHeight ==
    /\ cfg = BaseCfg
    /\ ram \in HeightRam
    /\ InitTracking

ReadHeight ==
    /\ \E m \in (IF probe = None THEN {ram} ELSE HeightMoves(ram)) :
          /\ ram' = m
          /\ probe' = Some(HeightInfo(cfg, m))
    /\ UNCHANGED << cfg, telemetry >>
    /\ UNCHANGED envVars

NextHeight == ReadHeight

SpecHeight == InitHeight /\ [][NextHeight]_vars

-----------------------------------------------------------------------------
(* Reading the collision map and asking for the tile at a pixel *)

\* SRAM contents: the byte at address a is (base + step * a) % 256
SramPatterns ==
    { [base |-> b, step |-> st] : b \in {0, 79, 194, 200}, st \in {0, 1} }

\* OAM entries 7..10 (y, tile_id, attributes, x): no player sprite, and a
\* player drawn with four sprites of which one is hidden
OamImages ==
    { [i \in 7..10 |-> << 255, 255, 0, 0 >>],
      [i \in 7..10 |-> IF i = 10 THEN << 240, 3, 0, 8 >>
                       ELSE << 96 + 8 * (i - 7), i, 0, 120 + 8 * (i % 2) >>] }

\* player X page and offset
TilePlayerX == { <<0, 10>>, <<0, 200>>, <<1, 40>>, <<9, 250>> }

TileRam ==
    { [BaseRam EXCEPT !.sram = p, !.sram_fails = f, !.oam = o, !.oam_fails = g,
                      !.x_page = px[1], !.x_pos = px[2], !.y_pos = 130] :
        p \in SramPatterns, f \in BOOLEAN, o \in OamImages, g \in BOOLEAN,
        px \in TilePlayerX }

\* pixel positions asked for, inside and outside the grid
PixelXs == {-1, 0, 40, 255, 256}

PixelYs == {-16, 0, 100, 239, 240}

\* What one reading returns: the grid, the identifiers it was built from, and
\* the answers of get_tile_at, is_solid and is_climbable at pixel (x, y)
TileInfo(c, m, x, y) ==
    [collision_map |-> collision_map(c, m),
     tile_ids |-> TileIdsRead(c, m),
     x |-> x, y |-> y,
     tile |-> get_tile_at(c, m, x, y),
     is_solid |-> is_solid(c, m, x, y),
     is_climbable |-> is_climbable(c, m, x, y)]

InitTiles ==
    /\ cfg = BaseCfg
    /\ ram \in TileRam
    /\ InitTracking

ReadTiles ==
    /\ probe = None
    /\ \E x \in PixelXs, y \in PixelYs : probe' = Some(TileInfo(cfg, ram, x, y))
    /\ UNCHANGED << cfg, ram, telemetry >>
    /\ UNCHANGED envVars

NextTiles == ReadTiles

SpecTiles == InitTiles /\ [][NextTiles]_vars

-----------------------------------------------------------------------------
(* Reading the speeds of the player and of the enemy slots *)

\* The speed values of the info dict: enemy_speeds and player_speed
SpeedInfo(c, m) ==
    [enemy_speeds |-> enemy_speeds(c, m), player_speed |-> player_speed(c, m)]

\* visibility bytes of the five slots
SpeedVisibility == { <<1, 1, 1, 1, 1>>, <<1, 0, 2, 1, 3>> }

\* every speed byte 0..255 for the player and for slot 1; the other slots
\* read the byte moved by a multiple of 50
SpeedRam ==
    { [BaseRam EXCEPT !.player_speed = b, !.e_vis = v,
                      !.e_speed = [i \in Slots |-> (b + 50 * (i - 1)) % 256]] :
        b \in 0..255, v \in SpeedVisibility }

InitSpeed ==
    /\ cfg = BaseCfg
    /\ ram \in SpeedRam
    /\ InitTracking

ReadSpeed ==
    /\ probe = None
    /\ probe' = Some(SpeedInfo(cfg, ram))
    /\ UNCHANGED << cfg, ram, telemetry >>
    /\ UNCHANGED envVars

NextSpeed == ReadSpeed

SpecSpeed == InitSpeed /\ [][NextSpeed]_vars

-----------------------------------------------------------------------------
(* Reading the collision map from every viewport *)

\* What one reading computes: the viewport offset and the addresses read
ViewportInfo(c, m) ==
    [viewport |-> GetViewportOffset(c, m), addresses |-> SramAddressesRead(c, m)]

\* player page bytes and offset bytes, the page reading 255 included
ViewportPages == {0, 1, 9, 10, 255}

ViewportOffsets == {0, 130, 255}

ViewportRam ==
    { [BaseRam EXCEPT !.x_page = xp, !.x_pos = xo, !.y_page = yp, !.y_pos = yo,
                      !.oam = o, !.oam_fails = g] :
        xp \in ViewportPages, xo \in ViewportOffsets,
        yp \in {0, 1, 255}, yo \in ViewportOffsets,
        o \in OamImages, g \in BOOLEAN }

InitViewport ==
    /\ cfg = BaseCfg
    /\ ram \in ViewportRam
    /\ InitTracking

ReadViewport ==
    /\ probe = None
    /\ probe' = Some(ViewportInfo(cfg, ram))
    /\ UNCHANGED << cfg, ram, telemetry >>
    /\ UNCHANGED envVars

NextViewport == ReadViewport

SpecViewport == InitViewport /\ [][NextViewport]_vars

-----------------------------------------------------------------------------
(* Overlaying the enemy slots on the collision map *)

\* What one overlay gives: the map before and after, the slots that passed
\* the visibility test, and the telemetry of the same memory image
OverlayInfo(c, m) ==
    [base |-> collision_map(c, m),
     overlaid |-> AddEnemiesToMap(c, m, collision_map(c, m)),
     eligible |-> { i \in Slots : OverlayEligible(c, m, i) },
     enemy_x_positions |-> enemy_x_positions(c, m),
     enemy_hp |-> enemy_hp(c, m)]

\* visibility bytes of slots 2..5; slot 1 takes every byte
OverlayVisibility == { <<1, 1, 1, 1>>, <<0, 2, 1, 3>> }

\* on-page pixel positions << x, y >> of the five slots: cells inside the
\* grid, row 15 below it, and two slots in one cell
OverlayPositions ==
    { << <<40, 100>>, <<255, 239>>, <<255, 240>>, <<128, 255>>, <<0, 0>> >>,
      << <<40, 100>>, <<41, 101>>, <<200, 50>>, <<0, 240>>, <<16, 16>> >> }

OverlaySram ==
    { [base |-> 0, step |-> 0], [base |-> 200, step |-> 0], [base |-> 194, step |-> 1] }

OverlayRam ==
    { [BaseRam EXCEPT !.e_vis = [i \in Slots |-> IF i = 1 THEN v ELSE w[i - 1]],
                      !.e_x = [i \in Slots |-> ps[i][1]],
                      !.e_y = [i \in Slots |-> ps[i][2]],
                      !.e_hp = [i \in Slots |-> i],
                      !.sram = p, !.y_pos = 130] :
        v \in 0..255, w \in OverlayVisibility, ps \in OverlayPositions,
        p \in OverlaySram }

InitOverlay ==
    /\ cfg \in { [BaseCfg EXCEPT !.has_read_ram = h] : h \in BOOLEAN }
    /\ ram \in OverlayRam
    /\ InitTracking

ReadOverlay ==
    /\ probe = None
    /\ probe' = Some(OverlayInfo(cfg, ram))
    /\ UNCHANGED << cfg, ram, telemetry >>
    /\ UNCHANGED envVars

NextOverlay == ReadOverlay

SpecOverlay == InitOverlay /\ [][NextOverlay]_vars

-----------------------------------------------------------------------------
(* Properties *)

SameSubAreaAndPosition(a, b) ==
    /\ a.sub_area = b.sub_area
    /\ a.global_x = b.global_x
    /\ a.global_y = b.global_y

\* C1: during an active hold (calls 1..98 of global_coordinate_system, the
\* onset call being call 1) every field of the returned tuple (area, sub_area,
\* global_x, global_y) equals the one the onset call returned, whatever the
\* raw bytes are.
C1_HoldReturnsOnsetTuple ==
    \A i \in DOMAIN calls :
        (calls[i].n >= 1 /\ calls[i].n <= 98) => calls[i].ret = Get(calls[i].onset)

\* C2: the 99th call after onset resets the transition counter to 0, and that
\* call and every later call until a new onset return the raw current
\* sub_area, global_x and global_y unmodified.
C2_ExpiryPassesRawValues ==
    \A i \in DOMAIN calls :
        /\ calls[i].n = 99 => calls[i].after = 0
        /\ calls[i].n >= 99 => SameSubAreaAndPosition(calls[i].ret, calls[i].raw)

\* C2 witness: a 99th call that returns a sub-area and a position other than
\* the held ones, and a later call that returns the raw values too
C2_Witness ==
    \E i, j \in DOMAIN calls :
        /\ calls[i].n = 99
        /\ calls[i].ret.sub_area # Get(calls[i].onset).sub_area
        /\ calls[i].ret.global_x # Get(calls[i].onset).global_x
        /\ calls[j].n = 100

\* C3: reset() leaves no retained state of the previous episode: when it
\* returns, no hold is active, and the info it returns and the previous values
\* it stores are those of the post-reset memory alone.
C3_ResetClearsRetainedState ==
    result.kind = "reset" =>
        /\ transition_frame_count = 0
        /\ info.global_coordinates = RawCoordinate(cfg, ram)
        /\ info.level_completed = FALSE
        /\ previous_sub_area = Some(sub_area(cfg, ram))
        /\ previous_x_global = Some(x_position_global(cfg, ram))
        /\ previous_y_global = Some(y_position_global(cfg, ram))

\* C4: the stabilizer is evaluated once per frame: a step advances the
\* transition frame counter by at most one.
C4_OneEvaluationPerStep ==
    [][ (result'.kind = "step" /\ episode_steps' = episode_steps + 1)
            => transition_frame_count' <= transition_frame_count + 1 ]_vars

\* C5: the coordinates reported by consecutive steps of an episode never show
\* the sub-area-ahead-of-position artifact: no step reports another sub_area
\* than the step before with the same global_x and global_y.
C5_NoSubAreaAheadOfPosition ==
    [][ (result.kind = "step" /\ result'.kind = "step"
            /\ episode_steps' = episode_steps + 1)
            => ~ ( /\ info'.global_coordinates.sub_area # info.global_coordinates.sub_area
                   /\ info'.global_coordinates.global_x = info.global_coordinates.global_x
                   /\ info'.global_coordinates.global_y = info.global_coordinates.global_y )
      ]_vars

EnemyLists ==
    { "enemy_x_positions", "enemy_y_positions", "enemy_x_pages", "enemy_y_pages",
      "enemy_x_positions_global", "enemy_y_positions_global",
      "enemy_x_positions_relative", "enemy_y_positions_relative",
      "enemy_speeds", "enemy_hp" }

\* C6: every enemy list has 5 entries in slot order, and a slot whose
\* visibility state is invisible (0) or dead (2) reports ENEMY_NOT_PRESENT in
\* every derived list, whatever its raw position, speed and health bytes are.
C6_AbsentSlotsReportSentinel ==
    telemetry # None =>
        \A l \in EnemyLists :
            /\ DOMAIN Get(telemetry)[l] = 1..5
            /\ \A i \in 1..5 :
                  ram.e_vis[i] \in {0, 2} => Get(telemetry)[l][i] = ENEMY_NOT_PRESENT

\* C6 witness: a dead slot and an invisible slot with nonzero raw bytes next
\* to a visible slot that reports its readings
C6_Witness ==
    /\ telemetry # None
    /\ \E i, j, k \in 1..5 :
          /\ ram.e_vis[i] = 2 /\ ram.e_x[i] # 0 /\ ram.e_hp[i] # 0
          /\ ram.e_vis[j] = 0 /\ ram.e_y[j] # 0 /\ ram.e_speed[j] # 0
          /\ ram.e_vis[k] = 1
          /\ Get(telemetry).enemy_x_positions_global[k] = ram.e_x_page[k] * 256 + ram.e_x[k]
          /\ Get(telemetry).enemy_x_positions[i] = ENEMY_NOT_PRESENT

CounterFields == { "lf_mario", "lf_peach", "lf_toad", "lf_luigi" }

CounterName(f) ==
    CASE f = "lf_mario" -> "mario"
      [] f = "lf_peach" -> "peach"
      [] f = "lf_toad"  -> "toad"
      [] f = "lf_luigi" -> "luigi"

RetainedCounter(f) == Get(previous_levels_finished)[CounterName(f)]

\* C7: level_completed is true on a frame iff one of the four levels_finished
\* counters read on that frame is strictly greater than the value retained
\* from the previous frame; so it is true on the frame of a rise and false on
\* a frame whose counters equal those of the frame before.
C7_LevelCompletedOnRise ==
    [][ (result'.kind \in {"step", "reset"})
            => /\ info'.level_completed
                    <=> ( /\ previous_levels_finished # None
                          /\ \E f \in CounterFields : ram'[f] > RetainedCounter(f) )
               /\ (result.kind \in {"step", "reset"})
                    => ( info'.level_completed
                            <=> \E f \in CounterFields : ram'[f] > ram[f] )
      ]_vars

\* C7 witness: mario's counter read 0, 0, 1: completion is reported on the
\* frame of the rise
C7_Witness ==
    /\ result.kind = "step"
    /\ episode_steps = 2
    /\ ram.lf_mario = 1
    /\ info.level_completed
    /\ previous_levels_finished = Some(levels_finished(cfg, ram))

\* C8: a step reports life_lost iff reset_on_life_loss is enabled, a previous
\* life count exists, the episode has passed the 300-step grace period and the
\* life count read this frame is below the retained one.
C8_LifeLostIffAllFour ==
    [][ (result'.kind = "step" /\ episode_steps' = episode_steps + 1)
            => ( info'.life_lost
                    <=> ( /\ cfg.reset_on_life_loss
                          /\ previous_lives # None
                          /\ episode_steps' >= 300
                          /\ lives(cfg, ram') < Get(previous_lives) ) )
      ]_vars

\* C8 witness: a life loss reported on the first step past the grace period
C8_Witness ==
    /\ result.kind = "step"
    /\ info.life_lost
    /\ episode_steps = 300
    /\ result.terminated

\* C9: a failing or unavailable memory read never propagates out of step()
\* or reset().
C9_ReadFailureNeverPropagates ==
    result.kind \notin {"reset raised", "step raised"}

\* C10: player global_x is page * 256 + offset, is non-decreasing in the
\* offset for a fixed page and grows by exactly 256 per page increment
\* (page 1, offset 10 gives 266).
C10_GlobalXIsPagedSum ==
    /\ [] ( probe # None =>
              /\ Get(probe).x_pos_global = ram.x_page * 256 + ram.x_pos
              /\ (ram.x_page = 1 /\ ram.x_pos = 10) => Get(probe).x_pos_global = 266 )
    /\ [][ (probe # None /\ probe' # None) =>
              /\ (ram'.x_page = ram.x_page /\ ram'.x_pos >= ram.x_pos)
                    => Get(probe').x_pos_global >= Get(probe).x_pos_global
              /\ (ram'.x_page = ram.x_page + 1 /\ ram'.x_pos = ram.x_pos)
                    => Get(probe').x_pos_global = Get(probe).x_pos_global + 256
         ]_vars

\* C10 witness: the scenario of page 1, offset 10 has been read
C10_Witness ==
    /\ probe # None
    /\ ram.x_page = 1
    /\ ram.x_pos = 10
    /\ Get(probe).x_pos_global = 266

\* The Y page as the transform combines it: a reading of 255 counts as page 0
WrappedPage(p) == IF p = 255 THEN 0 ELSE p

\* The offset byte clamped to the screen rows 0..239
ClampedOffset(o) == IF o > 239 THEN 239 ELSE o

\* The baseline of the inversion: 240 in a side-scrolling sub-area, 240 per
\* page in a vertically scrolling one
MaxYInLevel(m) ==
    IF m.scroll_direction = 0 THEN 240 * (m.total_pages + 1) ELSE 240

\* C11: for every Y page and offset byte, player global_y is
\* max_y_in_level - raw_global_y - 1 with raw_global_y = page * 256 +
\* clamp(offset, 0, 239), a page reading of 255 counting as page 0, and
\* max_y_in_level 240 in a non-vertical area and 240 * total pages in a
\* vertically scrolling one.
C11_GlobalYIsInvertedPagedSum ==
    probe # None =>
        Get(probe).y_pos_global
            = MaxYInLevel(ram)
                - (WrappedPage(ram.y_page) * 256 + ClampedOffset(ram.y_pos)) - 1

\* C12: the inversion is an involution: applying max_y - v - 1 to the
\* reported global_y gives back the combined value the inversion was applied
\* to (page, 255 counting as 0, times the page height, plus the clamped
\* offset), for every page and offset.
C12_InversionIsInvolution ==
    probe # None =>
        MaxYInLevel(ram) - Get(probe).y_pos_global - 1
            = WrappedPage(ram.y_page) * SCREEN_HEIGHT + ClampedOffset(ram.y_pos)

\* C12 witness: a reading on the second page of a three-page vertical
\* sub-area, below the top row, is recovered from its inverted value
C12_Witness ==
    /\ probe # None
    /\ ram.scroll_direction = 0 /\ ram.total_pages = 2
    /\ ram.y_page = 1 /\ ram.y_pos = 5
    /\ Get(probe).y_pos_global = 474
    /\ 720 - Get(probe).y_pos_global - 1 = 245

\* The screen row of a reading, counted downward from the top of the level;
\* page 255 is the page above the top
ScreenRow(m) ==
    IF m.y_page = 255 THEN m.y_pos - 256 ELSE m.y_page * 256 + m.y_pos

\* C13: global_y increases upward from 0 at the bottom of the world: it is
\* never negative, and of two readings in the same sub-area the one lower on
\* screen never has the larger global_y.
C13_GlobalYIncreasesUpward ==
    /\ [] ( probe # None => Get(probe).y_pos_global >= 0 )
    /\ [][ (probe # None /\ probe' # None /\ ScreenRow(ram') >= ScreenRow(ram))
              => Get(probe').y_pos_global <= Get(probe).y_pos_global ]_vars

\* C16: the global Y of a present enemy slot is inverted against the
\* non-vertical baseline whether or not the area scrolls vertically: it is
\* the value the same slot bytes give in a side-scrolling sub-area.
C16_EnemyYUsesNonVerticalBaseline ==
    probe # None =>
        \A i \in 1..5 :
            ram.e_vis[i] = 1 =>
                Get(probe).enemy_y_positions_global[i]
                    = enemy_y_positions_global(cfg,
                          [ram EXCEPT !.scroll_direction = 1, !.total_pages = 0])[i]

\* C14: tile classification is total: every tile identifier 0..255 gets
\* exactly one TileType, an identifier missing from TILE_ID_MAPPING gets
\* EMPTY, and every cell of the 16x16 collision map holds a TileType value.
C14_TileClassificationTotal ==
    /\ \A id \in 0..255 :
          /\ ClassifyTile(id) \in 0..30
          /\ id \notin DOMAIN TILE_ID_MAPPING => ClassifyTile(id) = 0
    /\ probe # None =>
          /\ DOMAIN Get(probe).collision_map = 0..15
          /\ \A y \in 0..15 :
                /\ DOMAIN Get(probe).collision_map[y] = 0..15
                /\ \A x \in 0..15 :
                      /\ Get(probe).collision_map[y][x] \in 0..30
                      /\ Get(probe).tile_ids[y][x] \notin DOMAIN TILE_ID_MAPPING
                            => Get(probe).collision_map[y][x] = 0

\* C14 witness: a grid built from SRAM that holds an identifier missing from
\* the table (read as empty), a solid block and a vine
C14_Witness ==
    /\ probe # None
    /\ \E y \in 0..15, x \in 0..15 :
          Get(probe).tile_ids[y][x] = 51 /\ Get(probe).collision_map[y][x] = 0
    /\ \E y \in 0..15, x \in 0..15 :
          Get(probe).tile_ids[y][x] = 202 /\ Get(probe).collision_map[y][x] = 1
    /\ \E y \in 0..15, x \in 0..15 :
          Get(probe).tile_ids[y][x] = 194 /\ Get(probe).collision_map[y][x] = 3

\* C15: is_solid(x, y) and is_climbable(x, y) are never both true, for every
\* TileType of the enumeration and every pixel position.
C15_SolidAndClimbableExclusive ==
    /\ \A t \in TileTypeValues : ~ (IsSolidTile(t) /\ IsClimbableTile(t))
    /\ probe # None => ~ (Get(probe).is_solid /\ Get(probe).is_climbable)

\* C15 witness: a pixel on a vine tile is climbable and not solid
C15_Witness ==
    /\ probe # None
    /\ Get(probe).tile = 3
    /\ Get(probe).is_climbable
    /\ ~ Get(probe).is_solid

\* What step() leaves alone when it raises before stepping the emulator
StepLeftNoTrace ==
    UNCHANGED << ram, episode_steps, done, info, transition_frame_count,
                 previous_lives, previous_levels_finished, previous_sub_area,
                 previous_x_global, previous_y_global >>

\* C17: once a step has returned terminated or truncated, every later step()
\* raises RuntimeError without stepping the emulator and without changing the
\* step count or the tracking state, until reset(); after reset() a step is
\* accepted again.
C17_StepAfterDoneRaises ==
    [][ /\ (result'.kind = "step" /\ (result'.terminated \/ result'.truncated))
              => done'
        /\ (done /\ last_action' # None)
              => (result'.kind = "RuntimeError" /\ StepLeftNoTrace)
        /\ (result.kind = "reset" /\ last_action' # None)
              => (result'.kind = "step" /\ episode_steps' = 1)
      ]_vars

\* C17 witness: a step refused after a truncated episode
C17_Witness ==
    /\ result.kind = "RuntimeError"
    /\ done
    /\ episode_steps = MaxEpisode
    /\ last_action # None

\* The valid indices of the configured action type
ValidActions(c) ==
    IF c.action_type = "all" THEN 0..255
    ELSE IF c.action_type = "complex" THEN 0..(COMPLEX_ACTIONS_LEN - 1)
    ELSE 0..(SIMPLE_ACTIONS_LEN - 1)

\* C18: step(action) with an action that is no valid index of the configured
\* action type (negative values included) raises ValueError before the
\* emulator is stepped, leaving the step count and the tracking state
\* unchanged.
C18_InvalidActionRaisesValueError ==
    [][ (~ done /\ last_action' # None /\ Get(last_action') \notin ValidActions(cfg))
            => (result'.kind = "ValueError" /\ StepLeftNoTrace) ]_vars

\* C19: a step returns terminated iff (the episode has run at least 300 steps
\* and lives is 0) or life_lost was detected on it, truncated iff
\* max_episode_steps is set and the step count has reached it; the episode is
\* done exactly when either holds, and no game over is reported during the
\* first 299 steps.
C19_TerminatedAndTruncated ==
    [][ (result'.kind = "step" /\ episode_steps' = episode_steps + 1)
            => /\ result'.terminated
                    <=> ( (episode_steps' >= 300 /\ ram'.lives = 0) \/ info'.life_lost )
               /\ result'.truncated
                    <=> ( cfg.max_episode_steps # None
                          /\ episode_steps' >= Get(cfg.max_episode_steps) )
               /\ done' <=> (result'.terminated \/ result'.truncated)
               /\ episode_steps' <= 299 => ~ result'.terminated
      ]_vars

\* C19 witness: game over reported on step 300 without a detected life loss,
\* the episode being done and not truncated
C19_Witness ==
    /\ result.kind = "step"
    /\ episode_steps = 300
    /\ ram.lives = 0
    /\ result.terminated /\ ~ result.truncated
    /\ ~ info.life_lost
    /\ done

\* C20: a hold begins on a call of global_coordinate_system (the counter
\* goes from 0 to 1) iff previous values are recorded, the counter is 0, the
\* current sub_area differs from the previous one and the current global_x
\* and global_y equal the previous ones; that call reports the previous
\* sub_area and passes x and y through.  A sub-area change that comes with a
\* position change starts no hold.
C20_HoldBeginsAtOnset ==
    \A i \in DOMAIN calls :
        LET call == calls[i]
            recorded == call.prev[1] # None /\ call.prev[2] # None /\ call.prev[3] # None
            onset == /\ recorded
                     /\ call.before = 0
                     /\ call.raw.sub_area # Get(call.prev[1])
                     /\ call.raw.global_x = Get(call.prev[2])
                     /\ call.raw.global_y = Get(call.prev[3])
        IN  /\ (call.before = 0 /\ call.after = 1) <=> onset
            /\ onset => /\ call.ret.sub_area = Get(call.prev[1])
                        /\ call.ret.global_x = call.raw.global_x
                        /\ call.ret.global_y = call.raw.global_y
            /\ ( /\ recorded
                 /\ call.before = 0
                 /\ call.raw.sub_area # Get(call.prev[1])
                 /\ call.raw.global_x # Get(call.prev[2]) )
                  => (call.after = 0 /\ call.ret.sub_area = call.raw.sub_area)

\* C20 witness: a call that starts a hold and reports the previous sub-area
\* in place of the one in memory
C20_Witness ==
    \E i \in DOMAIN calls :
        /\ calls[i].before = 0
        /\ calls[i].after = 1
        /\ calls[i].ret.sub_area # calls[i].raw.sub_area
        /\ calls[i].ret.global_x = calls[i].raw.global_x

\* C21: between calls the transition frame counter is an integer in
\* 0..AREA_TRANSITION_FRAMES (0..98): never negative and never left above 98
\* by a call, for any sequence of reset, step and memory values.
C21_CounterWithinHoldWindow ==
    /\ transition_frame_count \in 0..98
    /\ \A i \in DOMAIN calls : calls[i].before \in 0..98 /\ calls[i].after \in 0..98

\* C21 witness: the counter stands at 98 between two calls
C21_Witness ==
    /\ transition_frame_count = 98
    /\ \E i \in DOMAIN calls : calls[i].before = 97 /\ calls[i].after = 98

\* C22: every hold terminates: while the counter is nonzero it equals the
\* number of calls since the onset call and is at most 98, so the 98th call
\* after the onset call returns it to 0 whatever memory holds in between.
C22_HoldTerminates ==
    \A i \in DOMAIN calls :
        /\ calls[i].after > 0 => (calls[i].n >= 1 /\ calls[i].n <= 98
                                  /\ calls[i].after = calls[i].n)
        /\ (calls[i].before = 98 /\ calls[i].n = 99) => calls[i].after = 0

\* C22 witness: the call that ends a hold, 98 calls after its onset call,
\* with memory that differs from the held values
C22_Witness ==
    \E i \in DOMAIN calls :
        /\ calls[i].n = 99
        /\ calls[i].before = 98
        /\ calls[i].after = 0
        /\ calls[i].raw.sub_area # Get(calls[i].prev[1])

\* C23: after each step the retained previous sub_area, x and y are unchanged
\* from before the step if a hold is active at the end of the step (counter
\* above 0), and are otherwise the raw sub_area, global_x and global_y read on
\* that frame.
C23_RetainedValuesAfterStep ==
    [][ (result'.kind = "step" /\ episode_steps' = episode_steps + 1)
            => IF transition_frame_count' > 0
               THEN /\ previous_sub_area' = previous_sub_area
                    /\ previous_x_global' = previous_x_global
                    /\ previous_y_global' = previous_y_global
               ELSE /\ previous_sub_area' = Some(ram'.sub_area)
                    /\ previous_x_global' = Some(ram'.x_page * 256 + ram'.x_pos)
                    /\ previous_y_global' = Some(y_position_global(cfg, ram'))
      ]_vars

\* C24: while no previous coordinates are recorded, global_coordinate_system
\* returns the raw area, sub_area, global_x and global_y verbatim and neither
\* starts nor advances a hold; the first reset then records exactly those raw
\* values as the previous ones.
C24_UnrecordedPassesRaw ==
    /\ \A i \in DOMAIN calls :
          calls[i].prev[1] = None =>
              /\ calls[i].ret.area = ram.area
              /\ calls[i].ret.sub_area = ram.sub_area
              /\ calls[i].ret.global_x = ram.x_page * 256 + ram.x_pos
              /\ calls[i].ret.global_y = y_position_global(cfg, ram)
              /\ calls[i].after = calls[i].before
    /\ (result.kind = "reset" /\ calls[1].prev[1] = None) =>
          /\ previous_sub_area = Some(ram.sub_area)
          /\ previous_x_global = Some(ram.x_page * 256 + ram.x_pos)
          /\ previous_y_global = Some(y_position_global(cfg, ram))
          /\ transition_frame_count = 0

\* C24 witness: the first reset after construction has recorded the values
\* of a frame in sub-area 1
C24_Witness ==
    /\ result.kind = "reset"
    /\ calls[1].prev[1] = None
    /\ ram.sub_area = 1
    /\ previous_sub_area = Some(1)
    /\ info.global_coordinates.sub_area = 1

\* The two's-complement reading of a byte
TwosComplement(b) == IF b >= 128 THEN b - 256 ELSE b

\* C25: for every present slot and every speed byte b in 0..255 the reported
\* enemy speed is the two's-complement reading of b (b below 128, b - 256
\* from 128 on) and lies in -128..127; player_speed converts the same way.
C25_SpeedIsTwosComplement ==
    probe # None =>
        /\ \A i \in 1..5 :
              ram.e_vis[i] \notin {0, 2} =>
                  /\ Get(probe).enemy_speeds[i] = TwosComplement(ram.e_speed[i])
                  /\ Get(probe).enemy_speeds[i] \in -128..127
        /\ Get(probe).player_speed = TwosComplement(ram.player_speed)
        /\ Get(probe).player_speed \in -128..127

\* C25 witness: the byte 128 read as -128 for the player and for slot 1
C25_Witness ==
    /\ probe # None
    /\ ram.player_speed = 128
    /\ ram.e_vis[1] = 1
    /\ Get(probe).player_speed = -128
    /\ Get(probe).enemy_speeds[1] = -128
    /\ Get(probe).enemy_speeds[2] = -78

\* The derived telemetry lists: global and relative positions, speed, health
DerivedLists ==
    { "enemy_x_positions_global", "enemy_y_positions_global",
      "enemy_x_positions_relative", "enemy_y_positions_relative",
      "enemy_speeds", "enemy_hp" }

\* C29: the absent sentinel is unambiguous: a derived telemetry value of a
\* slot (global position, relative position, signed speed, hp) equals
\* ENEMY_NOT_PRESENT only if the slot's visibility state is invisible or dead.
C29_SentinelUnambiguous ==
    telemetry # None =>
        \A l \in DerivedLists : \A i \in 1..5 :
            Get(telemetry)[l][i] = ENEMY_NOT_PRESENT => ram.e_vis[i] \in {0, 2}

\* C26: for every viewport offset and every grid cell, the address collision_map
\* reads is (page_x * 256 + (world_y mod 16) * 16 + (world_x mod 16)) mod 0x960
\* and lies in 0..0x95F, for player page readings of 255 too.
C26_AddressWrappedIntoSram ==
    probe # None =>
        \A y \in 0..15 : \A x \in 0..15 :
            LET world_x == Get(probe).viewport[1] + x
                world_y == Get(probe).viewport[2] + y
                address == Get(probe).addresses[y][x]
            IN  /\ address =
                     ((world_x \div 16) * 256 + (world_y % 16) * 16 + (world_x % 16))
                         % 2400
                /\ address \in 0..2399

\* a reading with player page 255 on both axes whose unwrapped address is
\* beyond the SRAM size
C26_Witness ==
    /\ probe # None
    /\ ram.x_page = 255
    /\ ram.y_page = 255
    /\ (Get(probe).viewport[1] \div 16) * 256 >= 2400
    /\ Get(probe).addresses[15][15] \in 0..2399

\* the tile cell of the pixel asked for lies in the grid get_tile_at looks up
CellInGrid(x, y) ==
    /\ x \div 16 \in 0..(SCREEN_TILES_WIDTH - 1)
    /\ y \div 16 \in 0..(SCREEN_TILES_HEIGHT - 1)

\* C27: get_tile_at(x, y) returns EMPTY for every pixel position whose tile
\* cell (x // 16, y // 16) lies outside the grid bounds, negative coordinates
\* included, and is_solid and is_climbable are false there.
C27_OutOfBoundsIsEmpty ==
    (probe # None /\ "tile" \in DOMAIN Get(probe)) =>
        (~ CellInGrid(Get(probe).x, Get(probe).y) =>
            /\ Get(probe).tile = TileType.EMPTY
            /\ ~ Get(probe).is_solid
            /\ ~ Get(probe).is_climbable)

\* a lookup left of the grid while the whole map is solid
C27_Witness ==
    /\ probe # None
    /\ Get(probe).x = -1
    /\ Get(probe).y = 100
    /\ Get(probe).collision_map[6][15] = TileType.SOLID
    /\ Get(probe).collision_map[6][0] = TileType.SOLID
    /\ Get(probe).tile = TileType.EMPTY
    /\ ~ Get(probe).is_solid

\* a slot whose visibility byte reads visible and whose on-page position
\* falls in cell (y, x) of the grid
VisibleSlotInCell(i, y, x) ==
    /\ cfg.has_read_ram
    /\ ram.e_vis[i] = ENEMY_VISIBLE
    /\ ram.e_x[i] \div 16 = x
    /\ ram.e_y[i] \div 16 = y
    /\ x \in 0..(SCREEN_TILES_WIDTH - 1)
    /\ y \in 0..(SCREEN_TILES_HEIGHT - 1)

\* C28: _add_enemies_to_map changes only the cells (enemy_y // 16, enemy_x // 16)
\* of slots whose visibility is visible and whose cell lies inside the grid,
\* setting each to ENEMY whatever tile was there; slots outside the grid are
\* skipped and every other cell is left unchanged.
C28_OverlayMarksVisibleSlotsOnly ==
    (probe # None /\ "overlaid" \in DOMAIN Get(probe)) =>
        \A y \in 0..15 : \A x \in 0..15 :
            Get(probe).overlaid[y][x] =
                IF \E i \in 1..5 : VisibleSlotInCell(i, y, x)
                THEN TileType.ENEMY
                ELSE Get(probe).base[y][x]

\* a solid map on which visible slot 1 overwrites cell (6, 2), visible slot 4
\* in row 15 is skipped, and invisible slot 2 and slot 5 (visibility byte 3)
\* leave their cells as they were
C28_Witness ==
    /\ probe # None
    /\ cfg.has_read_ram
    /\ ram.e_vis = <<1, 0, 2, 1, 3>>
    /\ ram.e_x[4] = 128
    /\ ram.e_y[4] = 255
    /\ Get(probe).base[6][2] = TileType.SOLID
    /\ Get(probe).overlaid[6][2] = TileType.ENEMY
    /\ Get(probe).overlaid[15][8] = TileType.SOLID
    /\ Get(probe).overlaid[14][15] = TileType.SOLID
    /\ Get(probe).overlaid[0][0] = TileType.SOLID

\* C30: the telemetry lists and the map overlay agree on which slots are
\* present: for every visibility byte 0..255 a slot reports non-sentinel
\* telemetry iff _add_enemies_to_map treats it as eligible for overlay.
C30_TelemetryAndOverlayAgree ==
    (probe # None /\ "eligible" \in DOMAIN Get(probe)) =>
        \A i \in 1..5 :
            (Get(probe).enemy_x_positions[i] # ENEMY_NOT_PRESENT)
                <=> (i \in Get(probe).eligible)

====
